---------------------------- MODULE Spec2Model ----------------------------
(***************************************************************************)
(* Model of the differentially private histogram of                       *)
(* wangjunxiao/GeometricDP-Histogram:                                      *)
(*   src/mechanisms/geometric.py  Geometric, GeometricTruncated            *)
(*   src/histograms.py            histogram()                              *)
(*                                                                         *)
(* Numbers.  Python floats are modelled exactly where the code's outcome   *)
(* is decided by them:                                                     *)
(*   - epsilon is a multiple of ln 2 (or +inf), so that exp(scale) is the  *)
(*     rational 1 / 2^k and floor(ln(x) / scale) is decided by integer     *)
(*     comparisons;                                                        *)
(*   - a uniform draw of the generator is g / 2^DrawBits (numpy draws      *)
(*     multiples of 2^-53 in [0, 1), among them exactly 0.5);              *)
(*   - the IEEE values +inf and nan that np.log(0.0) leads to are kept as  *)
(*     non-finite values, and int() of them raises as in Python.           *)
(***************************************************************************)
EXTENDS Integers, Sequences, FiniteSets, TLC

VARIABLES frame, accountant, mech

vars == <<frame, accountant, mech>>

----------------------------------------------------------------------------
(* Bounds of the model *)

\* a uniform draw has DrawBits bits (53 in numpy)
DrawBits == 3
\* finite epsilons are 1..MaxEps, in units of ln 2
MaxEps == 1
\* finite total budgets of the accountant are 0..MaxBudget, in units of ln 2
MaxBudget == 1
\* histogram() calls made one after the other by one caller
MaxCalls == 2
\* values handed to a mechanism's randomise are -1..MaxValue
MaxValue == 2

----------------------------------------------------------------------------
(* Extended numbers: a float that is a natural number or +inf *)

Fin(n) == [inf |-> FALSE, n |-> n]

PosInf == [inf |-> TRUE, n |-> 0]

ELeq(a, b) == b.inf \/ (~a.inf /\ a.n <= b.n)

EAdd(a, b) == IF a.inf \/ b.inf THEN PosInf ELSE Fin(a.n + b.n)

RECURSIVE Pow(_, _)
Pow(b, e) == IF e = 0 THEN 1 ELSE b * Pow(b, e - 1)

Abs(x) == IF x < 0 THEN -x ELSE x

----------------------------------------------------------------------------
(* The random generator: self._rng / check_random_state *)

DrawDen == Pow(2, DrawBits)

\* the generator's state after one draw
RngNext(g) == (5 * g + 3) % DrawDen

\* rng.random() in state g is the float RngRandom(g) / DrawDen, in [0, 1)
RngRandom(g) == g

\* a generator seeded with an integer always starts in the same state
SeedState(s) == s % DrawDen

----------------------------------------------------------------------------
(* Geometric (src/mechanisms/geometric.py) *)

Ok(v) == [ok |-> TRUE, val |-> v, err |-> "none"]

Raise(e) == [ok |-> FALSE, val |-> 0, err |-> e]

\* Geometric._check_sensitivity (sensitivities of the model are integers)
CheckSensitivity(sensitivity) ==
    IF sensitivity < 0 THEN Raise("ValueError") ELSE Ok(sensitivity)

\* DPMechanism._check_epsilon_delta: epsilon must be positive or +inf
CheckEpsilon(epsilon) ==
    IF ~epsilon.inf /\ epsilon.n <= 0 THEN Raise("ValueError") ELSE Ok(0)

\* self._scale = -epsilon / sensitivity if sensitivity > 0 else -inf;
\* [inf |-> FALSE, k |-> k] is the float -k * ln 2, [inf |-> TRUE] is -inf
Scale(epsilon, sensitivity) ==
    IF sensitivity > 0 /\ ~epsilon.inf
    THEN [inf |-> FALSE, k |-> epsilon.n \div sensitivity]
    ELSE [inf |-> TRUE, k |-> 0]

\* np.exp(self._scale) as the rational n / d
ExpScale(scale) ==
    IF scale.inf THEN [n |-> 0, d |-> 1] ELSE [n |-> 1, d |-> Pow(2, scale.k)]

\* unif_rv = self._rng.random() - 0.5; unif_rv *= 1 + np.exp(self._scale)
UnifRv(scale, g) ==
    LET q == ExpScale(scale)
    IN  [n |-> (2 * RngRandom(g) - DrawDen) * (q.d + q.n), d |-> 2 * DrawDen * q.d]

Sgn(u) == IF u.n < 0 THEN -1 ELSE 1

\* the greatest j >= from with xn * 2^(j*k) <= xd, for 0 < xn / xd < 1
RECURSIVE FloorLog(_, _, _, _)
FloorLog(xn, xd, k, from) ==
    IF xn * Pow(2, (from + 1) * k) <= xd THEN FloorLog(xn, xd, k, from + 1) ELSE from

\* np.floor(np.log(sgn * unif_rv) / self._scale): a float, finite or not
FloorLogOverScale(scale, u) ==
    LET xn == Abs(u.n)
    IN  IF xn = 0
        THEN \* np.log(0.0) = -inf; -inf / -inf = nan, -inf / scale = +inf
             IF scale.inf THEN [fin |-> FALSE, kind |-> "nan", v |-> 0]
                          ELSE [fin |-> FALSE, kind |-> "inf", v |-> 0]
        ELSE IF scale.inf
             THEN [fin |-> TRUE, kind |-> "num", v |-> 0]
             ELSE [fin |-> TRUE, kind |-> "num", v |-> FloorLog(xn, u.d, scale.k, 0)]

\* int(np.round(x)) of a float: int() raises on nan and on infinity
IntRound(x) ==
    IF x.fin THEN Ok(x.v)
    ELSE IF x.kind = "nan" THEN Raise("ValueError") ELSE Raise("OverflowError")

\* value + sgn * m, in floats
AddNoise(value, sgn, m) ==
    IF m.fin THEN [fin |-> TRUE, kind |-> "num", v |-> value + sgn * m.v] ELSE m

\* Geometric.randomise(value) with the generator in state g
GeometricRandomise(scale, value, g) ==
    LET u == UnifRv(scale, g)
    IN  IntRound(AddNoise(value, Sgn(u), FloorLogOverScale(scale, u)))

\* TruncationAndFoldingMixin._truncate
Truncate(lower, upper, v) ==
    IF v > upper THEN upper ELSE IF v < lower THEN lower ELSE v

\* TruncationAndFoldingMixin._check_bounds
CheckBounds(lower, upper) ==
    IF lower > upper THEN Raise("ValueError") ELSE Ok(0)

\* GeometricTruncated.randomise(value) with the generator in state g
TruncatedRandomise(scale, lower, upper, value, g) ==
    LET noisy_value == GeometricRandomise(scale, value, g)
    IN  IF noisy_value.ok THEN Ok(Truncate(lower, upper, noisy_value.val))
        ELSE noisy_value


----------------------------------------------------------------------------
(* np.histogram, as histogram()'s docstring states it (lines 29-39, 66-69):
   `bins` an int gives equal-width bins over `range` (over the data's
   min and max without one), a sequence gives the edges; values outside
   the range are ignored; every bin is half-open but the last.
   Edges are the rationals num[i] / den. *)

RECURSIVE SeqMin(_)
SeqMin(s) ==
    IF Len(s) = 1 THEN s[1]
    ELSE LET m == SeqMin(Tail(s)) IN IF s[1] < m THEN s[1] ELSE m

RECURSIVE SeqMax(_)
SeqMax(s) ==
    IF Len(s) = 1 THEN s[1]
    ELSE LET m == SeqMax(Tail(s)) IN IF s[1] > m THEN s[1] ELSE m

RECURSIVE SeqSum(_)
SeqSum(s) == IF s = <<>> THEN 0 ELSE s[1] + SeqSum(Tail(s))

\* the outer edges (first, last), doubled: an empty range is widened by 0.5
OuterEdges2(a, range) ==
    LET lo == IF range.given THEN range.lo ELSE IF a = <<>> THEN 0 ELSE SeqMin(a)
        hi == IF range.given THEN range.hi ELSE IF a = <<>> THEN 1 ELSE SeqMax(a)
    IN  IF lo = hi THEN <<2 * lo - 1, 2 * hi + 1>> ELSE <<2 * lo, 2 * hi>>

BinEdges(a, bins, range) ==
    IF bins.isInt
    THEN LET o == OuterEdges2(a, range)
         IN  [den |-> 2 * bins.n,
              num |-> [i \in 1..(bins.n + 1) |-> o[1] * bins.n + (i - 1) * (o[2] - o[1])]]
    ELSE [den |-> 1, num |-> bins.edges]

\* whether value v falls into bin i of nb bins
InBin(v, edges, i) ==
    /\ edges.num[i] <= v * edges.den
    /\ IF i = Len(edges.num) - 1 THEN v * edges.den <= edges.num[i + 1]
                                 ELSE v * edges.den < edges.num[i + 1]

\* the weight of the j-th sample (1 without weights)
WeightOf(data, j) == IF data.weighted THEN data.weights[j] ELSE 1

RECURSIVE BinCount(_, _, _, _)
BinCount(data, edges, i, j) ==
    IF j > Len(data.a) THEN 0
    ELSE (IF InBin(data.a[j], edges, i) THEN WeightOf(data, j) ELSE 0)
         + BinCount(data, edges, i, j + 1)

\* np.histogram(sample, bins=bins, range=range, weights=weights, density=None)
NpHistogram(data, bins, range) ==
    IF bins.isInt /\ range.given /\ range.lo > range.hi
    THEN [ok |-> FALSE, err |-> "ValueError", hist |-> <<>>, bin_edges |-> [den |-> 1, num |-> <<>>]]
    ELSE IF ~bins.isInt /\ \E i \in 1..(Len(bins.edges) - 1) : bins.edges[i] > bins.edges[i + 1]
    THEN [ok |-> FALSE, err |-> "ValueError", hist |-> <<>>, bin_edges |-> [den |-> 1, num |-> <<>>]]
    ELSE LET e == BinEdges(data.a, bins, range)
         IN  [ok |-> TRUE, err |-> "none",
              hist |-> [i \in 1..(Len(e.num) - 1) |-> BinCount(data, e, i, 1)],
              bin_edges |-> e]

----------------------------------------------------------------------------
(* BudgetAccountant: check(epsilon, 0) fails if the spend would exceed the
   remaining budget, spend(epsilon, 0) commits it *)

AccountantCheck(acc, epsilon) == ELeq(EAdd(acc.spent, epsilon), acc.budget)

AccountantSpend(acc, epsilon) == [acc EXCEPT !.spent = EAdd(@, epsilon)]

----------------------------------------------------------------------------
(* histogram() (src/histograms.py): one frame per caller *)

\* sys.maxsize, the upper bound of the mechanism; the largest integer of the
\* model stands for 2^63 - 1
maxsize == 2147483647

NoRange == [given |-> FALSE, lo |-> 0, hi |-> 0]

NoSeed == [given |-> FALSE, s |-> 0]

NoEdges == [den |-> 1, num |-> <<>>]

IdleFrame(n) ==
    [pc |-> "idle", calls |-> n,
     data |-> [a |-> <<>>, weighted |-> FALSE, weights |-> <<>>],
     epsilon |-> Fin(0), bins |-> [isInt |-> TRUE, n |-> 1, edges |-> <<>>],
     range |-> NoRange, density |-> FALSE, random_state |-> NoSeed,
     rng |-> 0, hist |-> <<>>, bin_edges |-> NoEdges,
     scale |-> [inf |-> TRUE, k |-> 0], dp_hist |-> <<>>, i |-> 0,
     warned |-> FALSE, values |-> <<>>, err |-> "none",
     \* history: the accountant's spend at entry, the spends this call made,
     \* the generator states this call drew from
     spent0 |-> Fin(0), spends |-> <<>>, draws |-> <<>>]

Epsilons == {Fin(e) : e \in 0..MaxEps} \cup {PosInf}

Seeds == {[given |-> TRUE, s |-> s] : s \in 0..(DrawDen - 1)} \cup {NoSeed}

Datas ==
    {[a |-> a, weighted |-> FALSE, weights |-> <<>>] : a \in {<<>>, <<1, 5, 5, 9>>, <<3>>, <<0, 12>>}}
    \cup {[a |-> <<1, 5, 5, 9>>, weighted |-> TRUE, weights |-> <<1, 2, 3, 4>>]}

BinSpecs ==
    {[isInt |-> TRUE, n |-> n, edges |-> <<>>] : n \in 1..2}
    \cup {[isInt |-> FALSE, n |-> 0, edges |-> e] : e \in {<<0, 2, 10>>, <<0, 0, 10>>, <<5, 0>>}}

Ranges ==
    {NoRange} \cup {[given |-> TRUE, lo |-> r[1], hi |-> r[2]] : r \in {<<0, 10>>, <<5, 5>>, <<10, 0>>}}

\* the arguments of the calls of a sequential caller
AllInputs ==
    [data : Datas, epsilon : Epsilons, bins : BinSpecs, range : Ranges,
     density : BOOLEAN, random_state : Seeds]

\* the arguments of the calls of concurrent callers
ConcInputs ==
    [data : {[a |-> <<1, 5, 5, 9>>, weighted |-> FALSE, weights |-> <<>>]},
     epsilon : {Fin(e) : e \in 1..MaxEps},
     bins : {[isInt |-> TRUE, n |-> 2, edges |-> <<>>]},
     range : {[given |-> TRUE, lo |-> 0, hi |-> 10]},
     density : {FALSE},
     random_state : {[given |-> TRUE, s |-> s] : s \in {0, DrawDen \div 2}}]

Upd(c, f) == frame' = [frame EXCEPT ![c] = f]

RaiseIn(f, e) == [f EXCEPT !.pc = "raised", !.err = e]

\* check_random_state(random_state): a seed gives a fresh generator, None the
\* process-wide generator, whose state is whatever earlier draws left
CheckRandomState(random_state) ==
    IF random_state.given THEN {SeedState(random_state.s)} ELSE 0..(DrawDen - 1)

\* lines 16, 71-73: entry, warn_unused_args, check_random_state
HistogramCall(c, inputs) ==
    /\ frame[c].pc = "idle"
    /\ frame[c].calls < MaxCalls
    /\ \E in \in inputs, g \in 0..(DrawDen - 1) :
          /\ g \in CheckRandomState(in.random_state)
          /\ Upd(c, [IdleFrame(frame[c].calls + 1) EXCEPT
                        !.pc = "check", !.data = in.data, !.epsilon = in.epsilon,
                        !.bins = in.bins, !.range = in.range, !.density = in.density,
                        !.random_state = in.random_state, !.rng = g,
                        !.spent0 = accountant.spent])
    /\ UNCHANGED <<accountant, mech>>

\* mutant of Check: the accountant's rejection is ignored
CheckIgnoresRejection(c) ==
    /\ frame[c].pc = "check"
    /\ Upd(c, [frame[c] EXCEPT !.pc = "warn"])
    /\ UNCHANGED <<accountant, mech>>

\* lines 75-76: accountant.check(epsilon, 0)
Check(c) ==
    /\ frame[c].pc = "check"
    /\ Upd(c, IF AccountantCheck(accountant, frame[c].epsilon)
              THEN [frame[c] EXCEPT !.pc = "warn"]
              ELSE RaiseIn(frame[c], "BudgetError"))
    /\ UNCHANGED <<accountant, mech>>

\* mutant of RangeWarn: the advisory is emitted whether range is given or not
RangeWarnAlways(c) ==
    /\ frame[c].pc = "warn"
    /\ Upd(c, [frame[c] EXCEPT !.pc = "bin", !.warned = TRUE])
    /\ UNCHANGED <<accountant, mech>>

\* lines 78-81: the PrivacyLeakWarning
RangeWarn(c) ==
    /\ frame[c].pc = "warn"
    /\ Upd(c, [frame[c] EXCEPT !.pc = "bin", !.warned = ~frame[c].range.given])
    /\ UNCHANGED <<accountant, mech>>

\* line 83: np.histogram
Bin(c) ==
    /\ frame[c].pc = "bin"
    /\ LET r == NpHistogram(frame[c].data, frame[c].bins, frame[c].range)
       IN  Upd(c, IF r.ok
                  THEN [frame[c] EXCEPT !.pc = "mech", !.hist = r.hist, !.bin_edges = r.bin_edges]
                  ELSE RaiseIn(frame[c], r.err))
    /\ UNCHANGED <<accountant, mech>>

\* lines 85-87: GeometricTruncated(epsilon, sensitivity=1, lower=0, upper=maxsize)
\* and dp_hist = np.zeros_like(hist)
MakeMech(c) ==
    /\ frame[c].pc = "mech"
    /\ Upd(c, IF CheckEpsilon(frame[c].epsilon).ok /\ CheckSensitivity(1).ok
                 /\ CheckBounds(0, maxsize).ok
              THEN [frame[c] EXCEPT !.pc = "loop", !.scale = Scale(frame[c].epsilon, 1),
                                    !.dp_hist = [k \in DOMAIN frame[c].hist |-> 0], !.i = 1]
              ELSE RaiseIn(frame[c], "ValueError"))
    /\ UNCHANGED <<accountant, mech>>

\* mutant of RandomiseBin: a bin consumes two draws of the generator
RandomiseBinTwoDraws(c) ==
    /\ frame[c].pc = "loop"
    /\ frame[c].i <= Len(frame[c].hist)
    /\ LET f == frame[c]
           r == TruncatedRandomise(f.scale, 0, maxsize, f.hist[f.i], f.rng)
           g == [f EXCEPT !.rng = RngNext(RngNext(f.rng)), !.draws = Append(@, f.rng)]
       IN  Upd(c, IF r.ok
                  THEN [g EXCEPT !.dp_hist[f.i] = r.val, !.i = f.i + 1]
                  ELSE RaiseIn(g, r.err))
    /\ UNCHANGED <<accountant, mech>>

\* lines 89-90: dp_hist[i] = dp_mech.randomise(int(hist[i]))
RandomiseBin(c) ==
    /\ frame[c].pc = "loop"
    /\ frame[c].i <= Len(frame[c].hist)
    /\ LET f == frame[c]
           r == TruncatedRandomise(f.scale, 0, maxsize, f.hist[f.i], f.rng)
           g == [f EXCEPT !.rng = RngNext(f.rng), !.draws = Append(@, f.rng)]
       IN  Upd(c, IF r.ok
                  THEN [g EXCEPT !.dp_hist[f.i] = r.val, !.i = f.i + 1]
                  ELSE RaiseIn(g, r.err))
    /\ UNCHANGED <<accountant, mech>>

\* mutant of Spend: epsilon is spent once per bin
RECURSIVE ETimes(_, _)
ETimes(n, e) == IF n = 0 THEN Fin(0) ELSE EAdd(e, ETimes(n - 1, e))

SpendPerBin(c) ==
    /\ frame[c].pc = "loop"
    /\ frame[c].i > Len(frame[c].hist)
    /\ accountant' = [accountant EXCEPT
                         !.spent = EAdd(@, ETimes(Len(frame[c].hist), frame[c].epsilon))]
    /\ Upd(c, [frame[c] EXCEPT !.pc = "ret", !.spends = Append(@, frame[c].epsilon)])
    /\ UNCHANGED mech

\* line 94: accountant.spend(epsilon, 0), after the loop
Spend(c) ==
    /\ frame[c].pc = "loop"
    /\ frame[c].i > Len(frame[c].hist)
    /\ accountant' = AccountantSpend(accountant, frame[c].epsilon)
    /\ Upd(c, [frame[c] EXCEPT !.pc = "ret", !.spends = Append(@, frame[c].epsilon)])
    /\ UNCHANGED mech

\* mutant of Density: the division by the bin sizes is left out
DensityNoBinSizes(dp_hist, bin_edges) ==
    LET total == IF SeqSum(dp_hist) # 0 THEN SeqSum(dp_hist) ELSE 1
    IN  [k \in DOMAIN dp_hist |-> [n |-> dp_hist[k], d |-> total]]

\* dp_hist / bin_sizes / (dp_hist.sum() if dp_hist.sum() else 1), as rationals
Density(dp_hist, bin_edges) ==
    LET total == IF SeqSum(dp_hist) # 0 THEN SeqSum(dp_hist) ELSE 1
    IN  [k \in DOMAIN dp_hist |->
            [n |-> dp_hist[k] * bin_edges.den,
             d |-> (bin_edges.num[k + 1] - bin_edges.num[k]) * total]]

\* lines 96-100: the values returned, each a rational n / d
ReturnValues(density, dp_hist, bin_edges) ==
    IF density THEN Density(dp_hist, bin_edges)
    ELSE [k \in DOMAIN dp_hist |-> [n |-> dp_hist[k], d |-> 1]]

Return(c) ==
    /\ frame[c].pc = "ret"
    /\ Upd(c, [frame[c] EXCEPT !.pc = "returned",
                  !.values = ReturnValues(frame[c].density, frame[c].dp_hist, frame[c].bin_edges)])
    /\ UNCHANGED <<accountant, mech>>

\* the caller has the result, or the exception, and may call again
Finish(c) ==
    /\ frame[c].pc \in {"returned", "raised"}
    /\ Upd(c, IdleFrame(frame[c].calls))
    /\ UNCHANGED <<accountant, mech>>

----------------------------------------------------------------------------
(* A mechanism used on its own *)

NoMech ==
    [pc |-> "none", bounded |-> FALSE, epsilon |-> Fin(0), sensitivity |-> 0,
     lower |-> 0, upper |-> 0, scale |-> [inf |-> TRUE, k |-> 0], rng |-> 0,
     value |-> 0, draw |-> 0, out |-> Ok(0)]

\* the sensitivities for which exp(-epsilon / sensitivity) is rational
Sensitivities(epsilon) ==
    {s \in -1..MaxEps : s <= 0 \/ epsilon.inf \/ epsilon.n % s = 0}

\* a mechanism about to be constructed: Geometric(epsilon, sensitivity, seed)
\* or GeometricTruncated(epsilon, sensitivity, lower, upper, seed)
NewMechs ==
    {[NoMech EXCEPT !.pc = "new", !.bounded = b, !.epsilon = e, !.sensitivity = s,
                    !.lower = lu[1], !.upper = lu[2], !.rng = g] :
        b \in BOOLEAN, e \in Epsilons, s \in -1..MaxEps,
        lu \in (-1..MaxValue) \X (-1..MaxValue), g \in 0..(DrawDen - 1)}

\* Geometric.__init__ (lines 27-30), GeometricTruncated.__init__ (109-111)
MechConstruct ==
    /\ mech.pc = "new"
    /\ mech' = IF CheckEpsilon(mech.epsilon).ok /\ CheckSensitivity(mech.sensitivity).ok
                  /\ (mech.bounded => CheckBounds(mech.lower, mech.upper).ok)
               THEN [mech EXCEPT !.pc = "ready",
                                 !.scale = Scale(mech.epsilon, mech.sensitivity)]
               ELSE [mech EXCEPT !.pc = "invalid", !.out = Raise("ValueError")]
    /\ UNCHANGED <<frame, accountant>>

\* randomise(value) of the mechanism: Geometric.randomise (lines 69-88) or
\* GeometricTruncated.randomise (lines 137-141); the draw is consumed
MechRandomise ==
    /\ mech.pc = "ready"
    /\ \E value \in -1..MaxValue :
          mech' = [mech EXCEPT
                      !.pc = "done", !.value = value, !.draw = RngRandom(mech.rng),
                      !.rng = RngNext(mech.rng),
                      !.out = IF mech.bounded
                              THEN TruncatedRandomise(mech.scale, mech.lower, mech.upper,
                                                      value, mech.rng)
                              ELSE GeometricRandomise(mech.scale, value, mech.rng)]
    /\ UNCHANGED <<frame, accountant>>

\* the caller has the result, or the exception, and may randomise again
MechAgain ==
    /\ mech.pc = "done"
    /\ mech' = [mech EXCEPT !.pc = "ready"]
    /\ UNCHANGED <<frame, accountant>>


Budgets == {Fin(b) : b \in 0..MaxBudget} \cup {PosInf}

Init ==
    /\ frame = [c \in {1} |-> IdleFrame(0)]
    /\ accountant \in [budget : Budgets, spent : {Fin(0)}]
    /\ mech = NoMech

Next ==
    \/ \E c \in DOMAIN frame : HistogramCall(c, AllInputs)
    \/ \E c \in DOMAIN frame : Check(c)
    \/ \E c \in DOMAIN frame : RangeWarn(c)
    \/ \E c \in DOMAIN frame : Bin(c)
    \/ \E c \in DOMAIN frame : MakeMech(c)
    \/ \E c \in DOMAIN frame : RandomiseBin(c)
    \/ \E c \in DOMAIN frame : Spend(c)
    \/ \E c \in DOMAIN frame : Return(c)
    \/ \E c \in DOMAIN frame : Finish(c)

Spec == Init /\ [][Next]_vars

\* several callers share one accountant; each step of a call is a point at
\* which another thread may run
Callers == {1, 2}

\* each of the concurrent callers makes one call
InitConc ==
    /\ frame = [c \in Callers |-> IdleFrame(MaxCalls - 1)]
    /\ accountant \in [budget : Budgets, spent : {Fin(0)}]
    /\ mech = NoMech

NextConc ==
    \/ \E c \in DOMAIN frame : HistogramCall(c, ConcInputs)
    \/ \E c \in DOMAIN frame : Check(c)
    \/ \E c \in DOMAIN frame : RangeWarn(c)
    \/ \E c \in DOMAIN frame : Bin(c)
    \/ \E c \in DOMAIN frame : MakeMech(c)
    \/ \E c \in DOMAIN frame : RandomiseBin(c)
    \/ \E c \in DOMAIN frame : Spend(c)
    \/ \E c \in DOMAIN frame : Return(c)
    \/ \E c \in DOMAIN frame : Finish(c)

SpecConc == InitConc /\ [][NextConc]_vars

\* a mechanism constructed and used on its own
InitMech ==
    /\ frame = [c \in {1} |-> IdleFrame(0)]
    /\ accountant = [budget |-> PosInf, spent |-> Fin(0)]
    /\ mech \in {m \in NewMechs : m.sensitivity \in Sensitivities(m.epsilon)
                                  /\ (~m.bounded => m.lower = 0 /\ m.upper = 0)}

NextMech == MechConstruct \/ MechRandomise \/ MechAgain

SpecMech == InitMech /\ [][NextMech]_vars


----------------------------------------------------------------------------
(* Properties *)

Frames == {frame[c] : c \in DOMAIN frame}

\* whether check(epsilon, 0) rejects the call of frame f at its entry
RejectedAtEntry(f) ==
    ~AccountantCheck([accountant EXCEPT !.spent = f.spent0], f.epsilon)

\* nothing of the binning, the randomisation or the result exists in frame f
NothingComputed(f) ==
    /\ f.hist = <<>> /\ f.bin_edges = NoEdges /\ f.dp_hist = <<>>
    /\ f.draws = <<>> /\ f.values = <<>>

\* C1: a call the accountant's check(epsilon, 0) rejects raises the
\* budget-exceeded error before any binning or randomisation, returns no
\* result, and leaves the accountant's recorded spend as it was at entry.
C1_BudgetRejectionAborts ==
    \A f \in Frames :
        (f.pc \notin {"idle", "check"} /\ RejectedAtEntry(f)) =>
            /\ f.pc = "raised" /\ f.err = "BudgetError"
            /\ NothingComputed(f)
            /\ f.spends = <<>>
            /\ accountant.spent = f.spent0

\* C1 witness: a call is rejected by an accountant whose budget earlier calls
\* have used up (zero remaining budget)
C1_Witness ==
    \E f \in Frames :
        /\ f.pc = "raised" /\ f.err = "BudgetError"
        /\ ~accountant.budget.inf
        /\ accountant.spent = accountant.budget /\ accountant.spent.n >= 1

\* the bins of frame f randomised so far are the first i - 1, each by one
\* successful randomise of its exact count
BinsRandomised(f, n) ==
    /\ Len(f.draws) = n
    /\ \A k \in 1..n :
          LET r == TruncatedRandomise(f.scale, 0, maxsize, f.hist[k], f.draws[k])
          IN  r.ok /\ f.dp_hist[k] = r.val

\* C2: spend(epsilon, 0) is invoked only after every bin has been randomised,
\* exactly once and with the call's epsilon (not multiplied by the number of
\* bins); on every failure path it is not invoked and the accountant's spend
\* is unchanged.
C2_SpendOnceAfterAllBins ==
    \A f \in Frames :
        /\ f.spends # <<>> =>
              /\ f.spends = <<f.epsilon>>
              /\ f.pc \in {"ret", "returned"}
              /\ BinsRandomised(f, Len(f.hist))
        /\ f.pc \in {"ret", "returned"} =>
              /\ f.spends = <<f.epsilon>>
              /\ accountant.spent = EAdd(f.spent0, f.epsilon)
        /\ f.pc \in {"check", "warn", "bin", "mech", "loop", "raised"} =>
              /\ f.spends = <<>>
              /\ accountant.spent = f.spent0

\* C2 witness: after an earlier call has spent, a call fails in randomise on
\* its second bin, the first bin already randomised
C2_Witness ==
    \E f \in Frames :
        /\ f.pc = "raised" /\ f.err \in {"OverflowError", "ValueError"}
        /\ Len(f.draws) = 2 /\ f.i = 2
        /\ ~accountant.spent.inf /\ accountant.spent.n >= 1

\* a caller that has passed check and has not yet committed its spend
BetweenCheckAndSpend(f) == f.pc \in {"warn", "bin", "mech", "loop"}

\* C3: with several concurrent callers on one accountant, check followed by
\* spend is atomic: no two callers are both past check and before spend, and
\* the accountant's cumulative spend never exceeds its budget.
C3_CheckSpendAtomic ==
    /\ \A c, d \in DOMAIN frame :
          (BetweenCheckAndSpend(frame[c]) /\ BetweenCheckAndSpend(frame[d])) => c = d
    /\ ELeq(accountant.spent, accountant.budget)

\* C4: every randomise(value) of a bounded mechanism returns an integer in
\* [lower, upper], for every uniform draw.
C4_BoundedWithinBounds ==
    (mech.bounded /\ mech.pc = "done") =>
        /\ mech.out.ok
        /\ mech.lower <= mech.out.val /\ mech.out.val <= mech.upper

\* C5 (as stated): the privacy-leak advisory is emitted whenever range is
\* omitted and never when range is supplied.
C5_AdvisoryIffRangeOmitted ==
    \A f \in Frames :
        f.pc \in {"returned", "raised"} => (f.warned <=> ~f.range.given)

\* the range np.histogram derives from the data, given explicitly
DataRange(a) ==
    [given |-> TRUE, lo |-> IF a = <<>> THEN 0 ELSE SeqMin(a),
                     hi |-> IF a = <<>> THEN 1 ELSE SeqMax(a)]

\* C5 (amended): once the budget check has passed, the advisory is emitted
\* exactly when range is omitted (a call rejected by the budget check emits
\* none); it never interrupts the call: binning gives what it gives for the
\* data-derived range, and randomisation and the spend follow.
C5_AdvisoryAfterCheck ==
    \A f \in Frames :
        /\ f.warned => ~f.range.given
        /\ (f.pc \in {"bin", "mech", "loop", "ret", "returned"}
              \/ (f.pc = "raised" /\ f.err # "BudgetError")) =>
              (f.warned <=> ~f.range.given)
        /\ (f.pc = "raised" /\ f.err = "BudgetError") => ~f.warned
        /\ (f.warned /\ f.pc # "bin") =>
              LET r == NpHistogram(f.data, f.bins, DataRange(f.data.a))
              IN  IF r.ok
                  THEN /\ f.hist = r.hist /\ f.bin_edges = r.bin_edges
                       /\ f.pc = "returned" =>
                             /\ f.spends = <<f.epsilon>>
                             /\ BinsRandomised(f, Len(r.hist))
                  ELSE f.pc = "raised" /\ f.err = r.err

\* C5 witness: a call without range has emitted the advisory and returned,
\* its two bins randomised and its epsilon spent
C5_Witness ==
    \E f \in Frames :
        /\ f.warned /\ f.pc = "returned" /\ Len(f.hist) = 2
        /\ f.spends = <<f.epsilon>>

\* C6: Geometric.randomise(value) returns an integer for every valid epsilon,
\* sensitivity, value and uniform draw.
C6_RandomiseReturnsInteger ==
    (~mech.bounded /\ mech.pc = "done") => mech.out.ok

\* C7: when the scale is -inf (epsilon = +inf or sensitivity = 0),
\* randomise(value) returns exactly value, for every uniform draw.
C7_ZeroNoiseLimit ==
    (~mech.bounded /\ mech.pc = "done" /\ mech.scale.inf) =>
        (mech.out.ok /\ mech.out.val = mech.value)

\* the state of a generator seeded with s before its k-th draw
RECURSIVE StreamAt(_, _)
StreamAt(s, k) == IF k = 1 THEN SeedState(s) ELSE RngNext(StreamAt(s, k - 1))

\* the values and edges histogram() returns as a function of its arguments
\* alone: bin k randomised with the k-th draw of the seeded generator
SeededResult(f) ==
    LET r == NpHistogram(f.data, f.bins, f.range)
        noisy == [k \in DOMAIN r.hist |->
                     TruncatedRandomise(Scale(f.epsilon, 1), 0, maxsize, r.hist[k],
                                        StreamAt(f.random_state.s, k)).val]
    IN  [values |-> ReturnValues(f.density, noisy, r.bin_edges), bin_edges |-> r.bin_edges]

\* C8: with a seed, what histogram() returns is determined by its arguments
\* (two invocations with the same seed and inputs return the same values and
\* edges); the generator is consumed by one draw per bin, in ascending bin
\* order, and by nothing else.
C8_SeededDeterminism ==
    \A f \in Frames :
        (f.random_state.given /\ f.pc # "idle") =>
            /\ \A k \in DOMAIN f.draws : f.draws[k] = StreamAt(f.random_state.s, k)
            /\ f.rng = StreamAt(f.random_state.s, Len(f.draws) + 1)
            /\ f.pc = "loop" => Len(f.draws) = f.i - 1
            /\ f.pc \in {"ret", "returned"} => Len(f.draws) = Len(f.hist)
            /\ f.pc = "returned" =>
                  /\ f.values = SeededResult(f).values
                  /\ f.bin_edges = SeededResult(f).bin_edges

\* C8 witness: a caller's second seeded invocation has returned a histogram
\* of two bins
C8_Witness ==
    \E f \in Frames :
        /\ f.random_state.given /\ f.pc = "returned"
        /\ Len(f.values) = 2 /\ f.calls = 2

\* C9: with epsilon = +inf and density off, histogram() returns, for every
\* sample, bin specification and explicit range the binning accepts, exactly
\* the exact bin counts and edges.
C9_NoiselessExactCounts ==
    \A f \in Frames :
        LET r == NpHistogram(f.data, f.bins, f.range)
        IN  (/\ f.pc \in {"returned", "raised"}
             /\ f.epsilon.inf /\ ~f.density /\ f.range.given
             /\ ~RejectedAtEntry(f) /\ r.ok) =>
                /\ f.pc = "returned"
                /\ f.values = [k \in DOMAIN r.hist |-> [n |-> r.hist[k], d |-> 1]]
                /\ f.bin_edges = r.bin_edges

\* the sum over the bins k >= from of values[k] * bin_width[k], as the
\* rational n / d
RECURSIVE Integral(_, _, _)
Integral(values, bin_edges, from) ==
    IF from > Len(values) THEN [n |-> 0, d |-> 1]
    ELSE LET rest == Integral(values, bin_edges, from + 1)
             tn == values[from].n * (bin_edges.num[from + 1] - bin_edges.num[from])
             td == values[from].d * bin_edges.den
         IN  [n |-> tn * rest.d + rest.n * td, d |-> td * rest.d]

PositiveWidths(bin_edges) ==
    \A k \in 1..(Len(bin_edges.num) - 1) : bin_edges.num[k] < bin_edges.num[k + 1]

\* C10 (as stated): with density on and epsilon = +inf, the values returned
\* satisfy sum(value[i] * bin_width[i]) = 1 for every sample.
C10_DensityIntegratesToOne ==
    \A f \in Frames :
        (f.pc = "returned" /\ f.density /\ f.epsilon.inf /\ PositiveWidths(f.bin_edges)) =>
            LET s == Integral(f.values, f.bin_edges, 1)
            IN  s.d # 0 /\ s.n = s.d

\* C10 (amended): with density on and epsilon = +inf, the values returned
\* over bins of positive width sum, weighted by bin width, to 1 when the total
\* of the counts is not zero, and are all 0 when it is zero (the zero total is
\* treated as one).
C10_DensityIntegratesToOneOrZero ==
    \A f \in Frames :
        (f.pc = "returned" /\ f.density /\ f.epsilon.inf /\ PositiveWidths(f.bin_edges)) =>
            LET s == Integral(f.values, f.bin_edges, 1)
            IN  /\ s.d # 0
                /\ f.dp_hist = f.hist
                /\ SeqSum(f.hist) # 0 => s.n = s.d
                /\ SeqSum(f.hist) = 0 => (s.n = 0 /\ \A k \in DOMAIN f.values : f.values[k].n = 0)

\* C10 witness: a noiseless density over two bins of different widths, with
\* counts 1 and 3
C10_Witness ==
    \E f \in Frames :
        /\ f.pc = "returned" /\ f.density /\ f.epsilon.inf
        /\ f.bin_edges = [den |-> 1, num |-> <<0, 2, 10>>]
        /\ f.dp_hist = <<1, 3>>

=============================================================================
